---- MODULE Spec2Model ----
(***************************************************************************)
(* Model of internal/vulnstore/postgres/enrichment.go: the enrichment      *)
(* store.  UpdateEnrichments ingests a batch of enrichment records for an  *)
(* updater, GetEnrichment returns the records of the updater's latest      *)
(* update operation whose tags overlap a filter.                           *)
(*                                                                         *)
(* The three tables are the committed state of the database.  Every call   *)
(* of UpdateEnrichments runs in a slot of Calls and steps from one         *)
(* database statement to the next, so that calls interleave at statement   *)
(* boundaries.  A statement sent on the transaction (tx) writes to the     *)
(* call's pending rows, which commit or roll back as a whole; a statement  *)
(* sent on the pool (s.pool) is its own transaction and commits at once.   *)
(***************************************************************************)
EXTENDS Naturals, Sequences, FiniteSets

\* ------------------------------------------------------------------ bounds
\* Cap on the update_operation id sequence: the number of runs ever created.
MaxRuns == 3

\* ------------------------------------------------------------------ inputs
\* Strings are sequences of bytes.  The separator byte written after a tag.
Sep == 0

tagA == <<97>>
tagB == <<98>>
tagC == <<99>>
tagD == <<100>>

\* driver.EnrichmentRecord values the calls are given.
recAB  == [Tags |-> <<tagB, tagA>>, Enrichment |-> <<120>>]
recAbx == [Tags |-> <<tagA>>, Enrichment |-> <<98, 0, 120>>]
recC   == [Tags |-> <<tagC>>, Enrichment |-> <<120>>]

Names == {"u1", "u2"}
Fingerprints == {"fp"}
Batches == { <<>>, <<recC, recC>>, <<recC, recAB>>, <<recAB, recAbx>> }
Filters == { <<>>, <<tagA, tagD>>, <<tagC>> }
\* The slots of concurrent UpdateEnrichments calls.
Calls == {1, 2}
\* The arguments of the calls that run two at a time and the filters of the
\* reads among them; the one slot of the calls that run one after the other.
Overlapping == { [name |-> "u1", es |-> <<recC, recAB>>],
                 [name |-> "u1", es |-> <<recAbx>>],
                 [name |-> "u2", es |-> <<recAbx>>] }
OverlappingFilters == { <<tagA, tagD>> }
OneCall == {1}

\* The records hashEnrichment is applied to on its own: every tag list of at
\* most MaxTags tags, one tag a prefix of another, with a payload that holds
\* the separator byte and one that does not.
MaxTags == 2
tagAB == <<97, 98>>
HashTags == { tagA, tagB, tagAB }
Payloads == { <<120>>, <<98, 0, 120>> }
TagLists == UNION { [1..n -> HashTags] : n \in 0..MaxTags }
HashRecords ==
    { [Tags |-> ts, Enrichment |-> d] : ts \in TagLists, d \in Payloads }

\* ------------------------------------------------------------------ state
VARIABLES
    update_operation,  \* committed rows of table update_operation
    enrichment,        \* committed rows of table enrichment
    uo_enrich,         \* committed rows of table uo_enrich
    next_uo,           \* next value of the update_operation id sequence
    call,              \* per slot: the locals of an UpdateEnrichments call
    tx,                \* per slot: the transaction of the call
    get,               \* return values of the last GetEnrichment
    runs,              \* history: per run id, the call that created it
    commits            \* history: run ids in the order their calls committed

vars == <<update_operation, enrichment, uo_enrich, next_uo,
          call, tx, get, runs, commits>>

\* The id no run has, and the id no enrichment row has.
NoId == 0
NULL == <<0, 0>>
Nil == <<"uuid", 0>>
Ref(id) == <<"uuid", id>>

\* ------------------------------------------------------------ hashEnrichment
RECURSIVE StrLess(_, _)
StrLess(s, t) ==
    IF t = <<>> THEN FALSE
    ELSE IF s = <<>> THEN TRUE
    ELSE IF s[1] < t[1] THEN TRUE
    ELSE IF s[1] > t[1] THEN FALSE
    ELSE StrLess(Tail(s), Tail(t))

RECURSIVE InsertSorted(_, _)
InsertSorted(x, sorted) ==
    IF sorted = <<>> THEN <<x>>
    ELSE IF StrLess(x, sorted[1]) THEN <<x>> \o sorted
    ELSE <<sorted[1]>> \o InsertSorted(x, Tail(sorted))

\* sort.Strings, were it to leave the order as it is.
SortStringsKeepsOrder(ts) == ts

\* sort.Strings: the tags in increasing byte-wise order.
RECURSIVE SortStrings(_)
SortStrings(ts) ==
    IF ts = <<>> THEN <<>>
    ELSE InsertSorted(ts[1], SortStrings(Tail(ts)))

\* The bytes written to the digest: every tag followed by the separator,
\* then the payload.
RECURSIVE WriteTags(_)
WriteTags(ts) ==
    IF ts = <<>> THEN <<>>
    ELSE ts[1] \o <<Sep>> \o WriteTags(Tail(ts))

Stream(ts, data) == WriteTags(ts) \o data

\* md5 is taken to be free of collisions: the digest of a byte stream is
\* represented by the stream.
md5Sum(stream) == <<"sum", stream>>

\* hashEnrichment sorts r.Tags in place and returns the kind and the digest.
hashEnrichment(r) ==
    LET sorted == SortStrings(r.Tags)
    IN  [r |-> [r EXCEPT !.Tags = sorted],
         k |-> "md5",
         d |-> md5Sum(Stream(sorted, r.Enrichment))]

\* ------------------------------------------------------------------ helpers
Elems(s) == { s[i] : i \in 1..Len(s) }

NoCall == [pc |-> "idle", name |-> "", fp |-> "", es |-> <<>>, i |-> 0,
           id |-> 0, ref |-> Nil, hashKind |-> "", hash |-> <<>>,
           ret |-> Nil, err |-> "nil"]
NoTx == [open |-> FALSE, enrichment |-> {}, uo_enrich |-> {}]
NoRun == [state |-> "none", name |-> "", es |-> <<>>, linked |-> {}]
NoGet == [results |-> {}, err |-> "nil", pc |-> "idle", open |-> FALSE,
          name |-> "", tags |-> <<>>]

Init ==
    /\ update_operation = {}
    /\ enrichment = {}
    /\ uo_enrich = {}
    /\ next_uo = 1
    /\ call = [w \in Calls |-> NoCall]
    /\ tx = [w \in Calls |-> NoTx]
    /\ get = NoGet
    /\ runs = [id \in 1..MaxRuns |-> NoRun]
    /\ commits = <<>>

\* ------------------------------------------------------- the SQL statements
\* Rows a statement of w's transaction sees: the committed rows and the rows
\* the transaction has written itself.
VisibleEnrichment(w) == enrichment \cup tx[w].enrichment

\* ON CONFLICT (hash_kind, hash): a visible row with the same kind and digest,
\* whoever the updater is.
InsertConflict(w, k, d) ==
    \E e \in VisibleEnrichment(w) : e.hash_kind = k /\ e.hash = d

\* Another open transaction holds an uncommitted row with the same kind and
\* digest: the insert waits until that transaction commits or rolls back.
InsertWaits(w, k, d) ==
    \E v \in Calls \ {w} :
        /\ tx[v].open
        /\ \E e \in tx[v].enrichment : e.hash_kind = k /\ e.hash = d

\* SELECT id FROM enrichment WHERE hash_kind = $1 AND hash = $2 AND updater = $3
SelectEnrichId(w, k, d, name) ==
    { e.id : e \in { x \in VisibleEnrichment(w) :
                        x.hash_kind = k /\ x.hash = d /\ x.updater = name } }

\* Latest, were it the oldest run of the updater: min(id).
LatestOldest(name) ==
    LET ids == { o.id : o \in { x \in update_operation : x.updater = name } }
    IN  IF ids = {} THEN NoId
        ELSE CHOOSE m \in ids : \A n \in ids : m <= n

\* Latest, were it the run of the updater that committed last.
LatestByCommit(name) ==
    LET ps == { p \in 1..Len(commits) :
                  \E o \in update_operation :
                      o.id = commits[p] /\ o.updater = name }
    IN  IF ps = {} THEN NoId
        ELSE commits[CHOOSE p \in ps : \A q \in ps : q <= p]

\* Latest, were the WHERE clause missing: max(id) of all the rows.
LatestAnyUpdater(name) ==
    LET ids == { o.id : o \in update_operation }
    IN  IF ids = {} THEN NoId
        ELSE CHOOSE m \in ids : \A n \in ids : n <= m

\* max(id) FROM update_operation WHERE updater = $1; NULL when there is no row.
Latest(name) ==
    LET ids == { o.id : o \in { x \in update_operation : x.updater = name } }
    IN  IF ids = {} THEN NoId
        ELSE CHOOSE m \in ids : \A n \in ids : n <= m

\* Overlap, were it containment (@>): every tag of the filter is in e.tags.
OverlapAsContains(etags, tags) ==
    \A j \in 1..Len(tags) : \E i \in 1..Len(etags) : etags[i] = tags[j]

\* e.tags && $2::text[]: the two arrays have an element in common.
Overlap(etags, tags) ==
    \E i \in 1..Len(etags) : \E j \in 1..Len(tags) : etags[i] = tags[j]

\* The query of GetEnrichment, run on the pool: it reads the committed rows.
query(name, tags) ==
    { [Tags |-> e.tags, Enrichment |-> e.data] :
        e \in { x \in enrichment :
                  /\ \E uo \in uo_enrich :
                        uo.uo = Latest(name) /\ uo.enrich = x.id
                  /\ Overlap(x.tags, tags) } }

\* ------------------------------------------------------- UpdateEnrichments
\* Calls that hold a transaction and have not yet created their run.
Started == Cardinality({ w \in Calls : call[w].pc = "create" })

\* A slot is free when no call runs in it.  A call takes the first free slot.
Free(w) == call[w].pc \in {"idle", "returned"}
FirstFree(w) == Free(w) /\ \A v \in Calls : v < w => ~Free(v)

\* s.pool.Begin succeeds: the call holds an open transaction.
Begin(w, name, fp, es) ==
    /\ FirstFree(w)
    /\ next_uo + Started <= MaxRuns
    /\ call' = [call EXCEPT ![w] =
                   [NoCall EXCEPT !.pc = "create", !.name = name,
                                  !.fp = fp, !.es = es]]
    /\ tx' = [tx EXCEPT ![w] = [NoTx EXCEPT !.open = TRUE]]
    /\ UNCHANGED <<update_operation, enrichment, uo_enrich, next_uo,
                   get, runs, commits>>

\* s.pool.Begin fails: uuid.Nil and the error are returned.
BeginErr(w) ==
    /\ FirstFree(w)
    /\ call' = [call EXCEPT ![w] =
                   [NoCall EXCEPT !.pc = "returned", !.err = "begin"]]
    /\ UNCHANGED <<update_operation, enrichment, uo_enrich, next_uo,
                   tx, get, runs, commits>>

\* The id the table's sequence gave out last, given out again.
NextIdReused == IF next_uo > 1 THEN next_uo - 1 ELSE next_uo

\* RETURNING id: the create statement names no id, the table draws it from
\* its sequence, which never gives a value twice and gives them increasing.
NextId == next_uo

\* The create statement, sent on the pool: the update_operation row is
\* committed by the statement itself.  The loop over es starts.
Create(w) ==
    LET c == call[w]
        id == NextId
    IN  /\ c.pc = "create"
        /\ update_operation' = update_operation \cup
              {[id |-> id, ref |-> Ref(id), updater |-> c.name,
                fingerprint |-> c.fp, kind |-> "enrichment"]}
        /\ next_uo' = next_uo + 1
        /\ call' = [call EXCEPT ![w] =
                       [c EXCEPT !.id = id, !.ref = Ref(id), !.i = 1,
                                 !.pc = IF c.es = <<>> THEN "done"
                                        ELSE "insert"]]
        /\ runs' = [runs EXCEPT ![id] =
                       [NoRun EXCEPT !.state = "inflight", !.name = c.name,
                                     !.es = c.es]]
        /\ UNCHANGED <<enrichment, uo_enrich, tx, get, commits>>

\* hashEnrichment(&es[i]) and the insert statement, in the transaction.  The
\* new row's id is the pair of the run and the place in the batch: as the ids
\* the table draws, it is different for every row ever inserted.
QueueInsert(w) ==
    LET c == call[w]
        h == hashEnrichment(c.es[c.i])
        row == [id |-> <<c.id, c.i>>, hash_kind |-> h.k, hash |-> h.d,
                updater |-> c.name, tags |-> h.r.Tags,
                data |-> h.r.Enrichment]
    IN  /\ c.pc = "insert"
        /\ ~InsertWaits(w, h.k, h.d)
        /\ call' = [call EXCEPT ![w] =
                       [c EXCEPT !.es[c.i] = h.r, !.hashKind = h.k,
                                 !.hash = h.d, !.pc = "assoc"]]
        /\ tx' = IF InsertConflict(w, h.k, h.d) THEN tx
                 ELSE [tx EXCEPT ![w].enrichment = @ \cup {row}]
        /\ UNCHANGED <<update_operation, enrichment, uo_enrich, next_uo,
                       get, runs, commits>>

\* The uo_enrich rows a statement of w's transaction sees.
VisibleAssoc(w) == uo_enrich \cup tx[w].uo_enrich

\* The row the assoc statement adds.  A table is a bag of rows: n tells apart
\* rows that are alike, it is the number of the visible rows with the same
\* record and run.
AssocRow(w, e, name, uo) ==
    [enrich |-> e, updater |-> name, uo |-> uo,
     n |-> Cardinality({ a \in VisibleAssoc(w) :
                           a.enrich = e /\ a.uo = uo })]

\* ON CONFLICT DO NOTHING, were uo_enrich without a unique constraint.
AssocConflictNever(w, e, uo) == FALSE

\* ON CONFLICT DO NOTHING of the assoc statement: a visible row with the same
\* record and run.  Rows without a record (NULL) never conflict.
AssocConflict(w, e, uo) ==
    /\ e # NULL
    /\ \E a \in VisibleAssoc(w) : a.enrich = e /\ a.uo = uo

\* Where the loop goes after the association of es[i].
AfterAssoc(c) ==
    [c EXCEPT !.i = c.i + 1,
              !.pc = IF c.i + 1 > Len(c.es) THEN "done" ELSE "insert"]

\* QueueAssoc, were the assoc statement sent on the pool as the create
\* statement is: the row is committed by the statement itself.
QueueAssocOnPool(w) ==
    LET c == call[w]
        sel == SelectEnrichId(w, c.hashKind, c.hash, c.name)
    IN  /\ c.pc = "assoc"
        /\ sel # {}
        /\ \E e \in sel :
              /\ uo_enrich' = IF AssocConflict(w, e, c.id) THEN uo_enrich
                               ELSE uo_enrich \cup
                                       {AssocRow(w, e, c.name, c.id)}
              /\ runs' = [runs EXCEPT ![c.id].linked = @ \cup {e}]
        /\ call' = [call EXCEPT ![w] = AfterAssoc(c)]
        /\ UNCHANGED <<update_operation, enrichment, next_uo, tx, get,
                       commits>>

\* The assoc statement, in the transaction, when the sub-select finds the
\* record: the row is added unless the run already has it.
QueueAssoc(w) ==
    LET c == call[w]
        sel == SelectEnrichId(w, c.hashKind, c.hash, c.name)
    IN  /\ c.pc = "assoc"
        /\ sel # {}
        /\ \E e \in sel :
              /\ tx' = IF AssocConflict(w, e, c.id) THEN tx
                       ELSE [tx EXCEPT ![w].uo_enrich = @ \cup
                                {AssocRow(w, e, c.name, c.id)}]
              /\ runs' = [runs EXCEPT ![c.id].linked = @ \cup {e}]
        /\ call' = [call EXCEPT ![w] = AfterAssoc(c)]
        /\ UNCHANGED <<update_operation, enrichment, uo_enrich, next_uo,
                       get, commits>>

\* The sub-select finds no record of this updater (the content is stored
\* under another updater) and the table takes a row without a record.
AssocNullInserted(w) ==
    LET c == call[w]
    IN  /\ c.pc = "assoc"
        /\ SelectEnrichId(w, c.hashKind, c.hash, c.name) = {}
        /\ tx' = [tx EXCEPT ![w].uo_enrich = @ \cup
                    {AssocRow(w, NULL, c.name, c.id)}]
        /\ call' = [call EXCEPT ![w] = AfterAssoc(c)]
        /\ UNCHANGED <<update_operation, enrichment, uo_enrich, next_uo,
                       get, runs, commits>>

\* Rollback, were the pending rows kept: what the call wrote stays.
RollbackKeepsRows(w) ==
    /\ enrichment' = enrichment \cup tx[w].enrichment
    /\ uo_enrich' = uo_enrich \cup tx[w].uo_enrich
    /\ tx' = [tx EXCEPT ![w] = NoTx]

\* The deferred rollback, were it missing: the transaction stays open.
RollbackMissing(w) == UNCHANGED <<tx, enrichment, uo_enrich>>

\* The deferred tx.Rollback of a call that returns an error: the pending
\* rows are dropped.
Rollback(w) ==
    /\ tx' = [tx EXCEPT ![w] = NoTx]
    /\ UNCHANGED <<enrichment, uo_enrich>>

\* A return of uuid.Nil and an error from stage at.
Failed(w, at) ==
    LET c == call[w]
    IN  /\ call' = [call EXCEPT ![w] =
                       [NoCall EXCEPT !.pc = "returned", !.id = c.id,
                                      !.i = c.i, !.ret = Nil, !.err = at]]
        /\ runs' = IF c.id = 0 THEN runs
                   ELSE [runs EXCEPT ![c.id] =
                            [NoRun EXCEPT !.state = "aborted",
                                          !.name = c.name]]
        /\ Rollback(w)
        /\ UNCHANGED <<update_operation, next_uo, get, commits>>

\* The sub-select finds no record of this updater and the table refuses a
\* row without a record: the statement fails and so does the call.
AssocNullRejected(w) ==
    /\ call[w].pc = "assoc"
    /\ SelectEnrichId(w, call[w].hashKind, call[w].hash, call[w].name) = {}
    /\ Failed(w, "assoc")

\* batch.Done succeeds.
Done(w) ==
    /\ call[w].pc = "done"
    /\ call' = [call EXCEPT ![w].pc = "commit"]
    /\ UNCHANGED <<update_operation, enrichment, uo_enrich, next_uo,
                   tx, get, runs, commits>>

\* Commit, were the call to take the updater's earlier associations away to
\* keep them from being queried.
CommitDropsEarlier(w) ==
    LET c == call[w]
    IN  /\ c.pc = "commit"
        /\ enrichment' = enrichment \cup tx[w].enrichment
        /\ uo_enrich' = { a \in uo_enrich : a.updater # c.name }
                            \cup tx[w].uo_enrich
        /\ tx' = [tx EXCEPT ![w] = NoTx]
        /\ call' = [call EXCEPT ![w] =
                       [NoCall EXCEPT !.pc = "returned", !.id = c.id,
                                      !.ret = c.ref]]
        /\ runs' = [runs EXCEPT ![c.id].state = "committed"]
        /\ commits' = Append(commits, c.id)
        /\ UNCHANGED <<update_operation, next_uo, get>>

\* tx.Commit succeeds: the pending rows become visible together and the
\* reference is returned.
Commit(w) ==
    LET c == call[w]
    IN  /\ c.pc = "commit"
        /\ enrichment' = enrichment \cup tx[w].enrichment
        /\ uo_enrich' = uo_enrich \cup tx[w].uo_enrich
        /\ tx' = [tx EXCEPT ![w] = NoTx]
        /\ call' = [call EXCEPT ![w] =
                       [NoCall EXCEPT !.pc = "returned", !.id = c.id,
                                      !.ret = c.ref]]
        /\ runs' = [runs EXCEPT ![c.id].state = "committed"]
        /\ commits' = Append(commits, c.id)
        /\ UNCHANGED <<update_operation, next_uo, get>>

\* Any statement after Begin fails (the store, the connection or the
\* context): the call returns the error and the transaction rolls back.
ReturnErr(w) ==
    /\ call[w].pc \in {"create", "insert", "assoc", "done", "commit"}
    /\ Failed(w, call[w].pc)

\* ------------------------------------------------------------ GetEnrichment
\* Begin, the query on the pool, the rows scanned into results, and the
\* deferred rollback of the transaction, which has done nothing.
GetEnrichment(name, tags) ==
    /\ get' = [NoGet EXCEPT !.results = query(name, tags)]
    /\ UNCHANGED <<update_operation, enrichment, uo_enrich, next_uo,
                   call, tx, runs, commits>>

\* Begin, the query or the scan fails: nil and the error are returned.
GetEnrichmentErr ==
    /\ get' = [NoGet EXCEPT !.err = "error"]
    /\ UNCHANGED <<update_operation, enrichment, uo_enrich, next_uo,
                   call, tx, runs, commits>>

\* GetEnrichment statement by statement.  s.pool.Begin succeeds: the call
\* holds an open transaction and the rollback is deferred.
GetBegin(name, tags) ==
    /\ get.pc = "idle"
    /\ get' = [NoGet EXCEPT !.pc = "query", !.open = TRUE, !.name = name,
                            !.tags = tags]
    /\ UNCHANGED <<update_operation, enrichment, uo_enrich, next_uo,
                   call, tx, runs, commits>>

\* s.pool.Begin fails: nil and the error are returned, no transaction held.
GetBeginErr ==
    /\ get.pc = "idle"
    /\ get' = [NoGet EXCEPT !.err = "begin"]
    /\ UNCHANGED <<update_operation, enrichment, uo_enrich, next_uo,
                   call, tx, runs, commits>>

\* The query on the pool and the scan of its rows succeed: the results are
\* returned, and the deferred tx.Rollback ends the transaction, which has
\* run no statement.
GetQuery ==
    /\ get.pc = "query"
    /\ get' = [NoGet EXCEPT !.results = query(get.name, get.tags)]
    /\ UNCHANGED <<update_operation, enrichment, uo_enrich, next_uo,
                   call, tx, runs, commits>>

\* The query or the scan fails: nil and the error are returned, and the
\* deferred tx.Rollback ends the transaction.
GetQueryErr ==
    /\ get.pc = "query"
    /\ get' = [NoGet EXCEPT !.err = "query"]
    /\ UNCHANGED <<update_operation, enrichment, uo_enrich, next_uo,
                   call, tx, runs, commits>>

\* ------------------------------------------------------------ specification
\* Calls that overlap: two slots.
Next ==
    \/ \E w \in Calls, in \in Overlapping, fp \in Fingerprints :
          Begin(w, in.name, fp, in.es)
    \/ \E w \in Calls : BeginErr(w)
    \/ \E w \in Calls : Create(w)
    \/ \E w \in Calls : QueueInsert(w)
    \/ \E w \in Calls : QueueAssoc(w)
    \/ \E w \in Calls : AssocNullInserted(w)
    \/ \E w \in Calls : AssocNullRejected(w)
    \/ \E w \in Calls : Done(w)
    \/ \E w \in Calls : Commit(w)
    \/ \E w \in Calls : ReturnErr(w)
    \/ \E name \in Names, tags \in OverlappingFilters :
          GetEnrichment(name, tags)
    \/ GetEnrichmentErr

Spec == Init /\ [][Next]_vars

\* Calls one after the other, on every batch of Batches.
NextSeq ==
    \/ \E w \in OneCall, name \in Names, fp \in Fingerprints,
          es \in Batches : Begin(w, name, fp, es)
    \/ \E w \in OneCall : BeginErr(w)
    \/ \E w \in OneCall : Create(w)
    \/ \E w \in OneCall : QueueInsert(w)
    \/ \E w \in OneCall : QueueAssoc(w)
    \/ \E w \in OneCall : AssocNullInserted(w)
    \/ \E w \in OneCall : AssocNullRejected(w)
    \/ \E w \in OneCall : Done(w)
    \/ \E w \in OneCall : Commit(w)
    \/ \E w \in OneCall : ReturnErr(w)
    \/ \E name \in Names, tags \in Filters : GetEnrichment(name, tags)
    \/ GetEnrichmentErr

SpecSeq == Init /\ [][NextSeq]_vars

\* The ledger is shared with the other kinds of ingestion: another writer
\* adds a run row of its kind for an updater name, drawing the id from the
\* same sequence.  It writes no enrichment and no association.
OtherKinds == {"vulnerability"}

CreateOtherKind(name, kind) ==
    /\ next_uo + Started <= MaxRuns
    /\ update_operation' = update_operation \cup
          {[id |-> NextId, ref |-> Ref(NextId), updater |-> name,
            fingerprint |-> "fp", kind |-> kind]}
    /\ next_uo' = next_uo + 1
    /\ UNCHANGED <<enrichment, uo_enrich, call, tx, get, runs, commits>>

\* Calls one after the other, among run rows of other kinds.
NextKinds ==
    \/ NextSeq
    \/ \E name \in Names, kind \in OtherKinds : CreateOtherKind(name, kind)

SpecKinds == Init /\ [][NextKinds]_vars

\* The transactions of the calls: UpdateEnrichments calls one after the
\* other and GetEnrichment statement by statement.  A call is sequential
\* code without an unbounded loop and each of its statements returns, with a
\* result or with an error (the context ends a statement that waits): a call
\* that has started keeps taking steps until it returns.
StepUpdate(w) ==
    \/ Create(w) \/ QueueInsert(w) \/ QueueAssoc(w) \/ AssocNullInserted(w)
    \/ AssocNullRejected(w) \/ Done(w) \/ Commit(w) \/ ReturnErr(w)

StepGet == GetQuery \/ GetQueryErr

NextTx ==
    \/ \E w \in OneCall, in \in Overlapping, fp \in Fingerprints :
          Begin(w, in.name, fp, in.es)
    \/ \E w \in OneCall : BeginErr(w)
    \/ \E w \in OneCall : Create(w)
    \/ \E w \in OneCall : QueueInsert(w)
    \/ \E w \in OneCall : QueueAssoc(w)
    \/ \E w \in OneCall : AssocNullInserted(w)
    \/ \E w \in OneCall : AssocNullRejected(w)
    \/ \E w \in OneCall : Done(w)
    \/ \E w \in OneCall : Commit(w)
    \/ \E w \in OneCall : ReturnErr(w)
    \/ \E name \in Names, tags \in Filters : GetBegin(name, tags)
    \/ GetBeginErr
    \/ GetQuery
    \/ GetQueryErr

SpecTx ==
    /\ Init
    /\ [][NextTx]_vars
    /\ \A w \in OneCall : WF_vars(StepUpdate(w))
    /\ WF_vars(StepGet)

\* hashEnrichment on its own: each slot holds a batch of one record of
\* HashRecords, kept as the caller supplied it in runs[w].es, and the step
\* is the call hashEnrichment(&es[i]) of the loop, the record sorted in
\* place through the pointer.
InitHash ==
    /\ update_operation = {}
    /\ enrichment = {}
    /\ uo_enrich = {}
    /\ next_uo = 1
    /\ \E in \in [Calls -> HashRecords] :
          /\ call = [w \in Calls |->
                       [NoCall EXCEPT !.pc = "hash", !.es = <<in[w]>>,
                                      !.i = 1]]
          /\ runs = [id \in 1..MaxRuns |->
                       IF id \in Calls THEN [NoRun EXCEPT !.es = <<in[id]>>]
                       ELSE NoRun]
    /\ tx = [w \in Calls |-> NoTx]
    /\ get = NoGet
    /\ commits = <<>>

Hash(w) ==
    LET c == call[w]
        h == hashEnrichment(c.es[c.i])
    IN  /\ c.pc = "hash"
        /\ call' = [call EXCEPT ![w].pc = "hashed",
                                ![w].es[c.i] = h.r,
                                ![w].hashKind = h.k,
                                ![w].hash = h.d]
        /\ UNCHANGED <<update_operation, enrichment, uo_enrich, next_uo,
                       tx, get, runs, commits>>

NextHash == \E w \in Calls : Hash(w)

SpecHash == InitHash /\ [][NextHash]_vars

\* ------------------------------------------------------------------ claims
\* What the claims speak of, stated on the history of the calls.
RunIds == 1..MaxRuns
InFlight(id) == runs[id].state = "inflight"
Committed(id) == runs[id].state = "committed"
Aborted(id) == runs[id].state = "aborted"
RunsOf(U) == { id \in RunIds : runs[id].state # "none" /\ runs[id].name = U }
CommittedOf(U) == { id \in RunsOf(U) : Committed(id) }
Greatest(ids) == CHOOSE m \in ids : \A n \in ids : ~(n > m)

\* A content is a tag set and a payload.
Content(r) == [tags |-> Elems(r.Tags), data |-> r.Enrichment]
RowContent(e) == [tags |-> Elems(e.tags), data |-> e.data]

\* The visible records the call of run id associated with its run, and those
\* of them a filter selects, as GetEnrichment returns them.
RunRecords(id) == { e \in enrichment : e.id \in runs[id].linked }
Rows(id, t) ==
    { [Tags |-> e.tags, Enrichment |-> e.data] :
        e \in { x \in RunRecords(id) : Elems(x.tags) \cap Elems(t) # {} } }

\* The visible records a visible association ties to run id.
Associated(id) ==
    { e \in enrichment : \E a \in uo_enrich : a.uo = id /\ a.enrich = e.id }

\* No row written by the call of run id is visible.
NoTrace(id) ==
    /\ \A e \in enrichment : e.id[1] # id
    /\ \A a \in uo_enrich : a.uo # id

\* C1: every visible run has all the associations of its input batch visible.
C1_NoPartialRun ==
    \A o \in update_operation :
        \A k \in 1..Len(runs[o.id].es) :
            \E e \in Associated(o.id) :
                RowContent(e) = Content(runs[o.id].es[k])

\* C2: while a call for U is in flight, GetEnrichment(U, tags) returns the
\* tag-matching records of the committed run of U with the greatest sequence
\* number (nothing when U has no committed run).
C2_ReaderSeesLatestCommitted ==
    \A U \in Names, t \in Filters :
        (\E id \in RunsOf(U) : InFlight(id)) =>
            query(U, t) = IF CommittedOf(U) = {} THEN {}
                          ELSE Rows(Greatest(CommittedOf(U)), t)

\* C3: a call that has returned an error has returned the nil reference and
\* has left no run row, no record and no association in the store.
C3_FailureLeavesNothing ==
    \A w \in Calls :
        (call[w].pc = "returned" /\ call[w].err # "nil") =>
            /\ call[w].ret = Nil
            /\ call[w].id # 0 =>
                  /\ \A o \in update_operation : o.id # call[w].id
                  /\ NoTrace(call[w].id)

\* C4: after a call has failed, at the association of its k-th record or
\* anywhere else, no record and no association it wrote is visible, and
\* GetEnrichment returns nothing through its run.
C4_FailedCallLeavesNoRecord ==
    \A id \in RunIds :
        Aborted(id) =>
            /\ NoTrace(id)
            /\ \A t \in Filters :
                  Latest(runs[id].name) = id => query(runs[id].name, t) = {}

\* The call in slot w failed at the association of its second record, after
\* the insert and the association of the first and the insert of the second.
C4_Witness ==
    \E w \in Calls :
        /\ call[w].pc = "returned"
        /\ call[w].err = "assoc"
        /\ call[w].i = 2
        /\ Aborted(call[w].id)

\* C5: no association of a run in flight is visible, so that GetEnrichment
\* returns nothing through it; once the run has committed and is the run of
\* its updater with the greatest sequence number, GetEnrichment returns the
\* records its call associated that the filter selects.
C5_VisibleAtCommit ==
    \A id \in RunIds :
        LET U == runs[id].name
        IN  /\ InFlight(id) =>
                  /\ \A a \in uo_enrich : a.uo # id
                  /\ \A t \in Filters :
                        Greatest(RunsOf(U)) = id => query(U, t) = {}
            /\ (Committed(id) /\ Greatest(RunsOf(U)) = id) =>
                  \A t \in Filters : query(U, t) = Rows(id, t)

\* A committed run is the greatest of its updater and a read has returned its
\* records, while another call is in flight with pending associations.
C5_Witness ==
    /\ \E id \in RunIds :
          /\ Committed(id)
          /\ Greatest(RunsOf(runs[id].name)) = id
          /\ query(runs[id].name, <<tagA, tagD>>) # {}
          /\ get.results = query(runs[id].name, <<tagA, tagD>>)
    /\ \E w \in Calls : tx[w].open /\ tx[w].uo_enrich # {}

\* C6: GetEnrichment(U, tags) returns only records associated with the run of
\* U with the greatest sequence number; what only an earlier run of U holds is
\* not returned.
C6_LatestWins ==
    \A U \in Names, t \in Filters :
        RunsOf(U) # {} =>
            LET m == Greatest(RunsOf(U))
            IN  /\ \A row \in query(U, t) : row \in Rows(m, t)
                /\ \A id \in RunsOf(U) \ {m} :
                      \A e \in RunRecords(id) \ RunRecords(m) :
                          [Tags |-> e.tags, Enrichment |-> e.data]
                              \notin query(U, t)

\* Two committed runs of an updater: the earlier holds a record that matches
\* the filter and the later does not have, and the later one's are returned.
C6_Witness ==
    \E U \in Names :
        \E id \in CommittedOf(U) :
            LET m == Greatest(RunsOf(U))
            IN  /\ id < m
                /\ Committed(m)
                /\ Rows(id, <<tagA, tagD>>) # {}
                /\ Rows(m, <<tagA, tagD>>) = {}
                /\ query(U, <<tagC>>) # {}

\* Two calls of U overlapped: the run with the lower sequence number
\* committed after the run with the greater one, which is the greatest of U,
\* and no call of U has committed since.
LowerCommittedLast(U, lo, hi) ==
    /\ lo \in CommittedOf(U)
    /\ hi \in CommittedOf(U)
    /\ lo < hi
    /\ hi = Greatest(RunsOf(U))
    /\ \E p, q \in 1..Len(commits) :
          /\ p < q
          /\ commits[p] = hi
          /\ commits[q] = lo
          /\ \A n \in (q + 1)..Len(commits) : commits[n] \notin RunsOf(U)

\* C7 as stated: GetEnrichment then returns the records of the run that
\* committed last.
C7_LastCommitWins ==
    \A U \in Names, lo \in RunIds, hi \in RunIds :
        LowerCommittedLast(U, lo, hi) =>
            \A t \in Filters : query(U, t) = Rows(lo, t)

\* C7 as amended: GetEnrichment then returns the records of the run with the
\* greater sequence number, the one that committed first.
C7_GreatestSequenceWins ==
    \A U \in Names, lo \in RunIds, hi \in RunIds :
        LowerCommittedLast(U, lo, hi) =>
            \A t \in Filters : query(U, t) = Rows(hi, t)

\* The two runs hold different records for a filter.
C7_Witness ==
    \E U \in Names, lo \in RunIds, hi \in RunIds :
        /\ LowerCommittedLast(U, lo, hi)
        /\ \E t \in Filters : Rows(lo, t) # Rows(hi, t) /\ query(U, t) # {}

\* C8: the records associated with a committed run are exactly the distinct
\* contents of its batch, each owned by the run's updater, and nothing else
\* is linked to the run.
C8_RunHoldsExactlyBatch ==
    \A id \in RunIds :
        Committed(id) =>
            /\ { RowContent(e) : e \in Associated(id) }
                  = { Content(r) : r \in Elems(runs[id].es) }
            /\ \A e \in Associated(id) : e.updater = runs[id].name
            /\ \A a \in uo_enrich : a.uo = id => a.enrich # NULL

\* C9: kind and digest are unique per updater, and a content that the batch
\* of a committed run of U contained has exactly one stored record owned by
\* U, associated with every such run.
C9_OneRecordPerContent ==
    /\ \A e, f \in enrichment :
          (e.updater = f.updater /\ e.hash_kind = f.hash_kind
             /\ e.hash = f.hash) => e = f
    /\ \A id \in RunIds :
          Committed(id) =>
              \A r \in Elems(runs[id].es) :
                  LET recs == { e \in enrichment :
                                  /\ e.updater = runs[id].name
                                  /\ RowContent(e) = Content(r) }
                  IN  /\ Cardinality(recs) = 1
                      /\ recs \subseteq Associated(id)

\* C10: GetEnrichment(U, tags) returns exactly the records associated with
\* the latest run of U whose tag set meets the filter; no record for the
\* empty filter.
C10_TagOverlap ==
    \A U \in Names, t \in Filters :
        /\ query(U, t) =
              IF RunsOf(U) = {} THEN {}
              ELSE { [Tags |-> e.tags, Enrichment |-> e.data] :
                       e \in { x \in Associated(Greatest(RunsOf(U))) :
                                 Elems(x.tags) \cap Elems(t) # {} } }
        /\ t = <<>> => query(U, t) = {}

\* The latest run of an updater holds a record with tags a and b, returned for
\* the filter {a, d}, which neither contains nor is contained in its tags,
\* and a record with tag c, which that filter does not return.
C10_Witness ==
    \E U \in Names :
        /\ RunsOf(U) # {}
        /\ \E e \in Associated(Greatest(RunsOf(U))) : Elems(e.tags) = {tagC}
        /\ query(U, <<tagA, tagD>>) =
              {[Tags |-> <<tagA, tagB>>, Enrichment |-> <<120>>]}
        /\ get.results = query(U, <<tagA, tagD>>)

\* C11: a GetEnrichment for an updater that has never created a run returns
\* the empty collection and no error, whatever the tag filter.
C11_EmptyUpdaterQuery ==
    [][(RunsOf(get.name) = {} /\ GetQuery) =>
          (get'.results = {} /\ get'.err = "nil")]_vars

\* An updater has no run while the store holds another updater's records,
\* which a filter selects, and the last read returned nothing.
C11_Witness ==
    \E U \in Names, V \in Names, t \in Filters :
        /\ RunsOf(U) = {}
        /\ query(V, t) # {}
        /\ get.results = {} /\ get.err = "nil"

\* The record slot w was given, before hashEnrichment was applied to it.
Supplied(w) == runs[w].es[1]
Hashed(w) == call[w].pc = "hashed"

\* t holds the elements of s, each as many times: t is s in another order.
Count(x, s) == Cardinality({ i \in 1..Len(s) : s[i] = x })
Permutation(s, t) ==
    /\ Len(s) = Len(t)
    /\ \A x \in Elems(s) \cup Elems(t) : Count(x, s) = Count(x, t)

\* C12: two records with the same payload whose tag lists are the same tags
\* in another order get the same hash kind and the same digest.
C12_TagOrderIndependent ==
    \A v \in Calls, w \in Calls :
        ( /\ Hashed(v) /\ Hashed(w)
          /\ Supplied(v).Enrichment = Supplied(w).Enrichment
          /\ Permutation(Supplied(v).Tags, Supplied(w).Tags) ) =>
            /\ call[v].hashKind = call[w].hashKind
            /\ call[v].hash = call[w].hash

\* Two records were hashed whose tag lists differ in order only.
C12_Witness ==
    \E v \in Calls, w \in Calls :
        /\ Hashed(v) /\ Hashed(w)
        /\ Supplied(v).Enrichment = Supplied(w).Enrichment
        /\ Supplied(v).Tags = <<tagB, tagAB>>
        /\ Supplied(w).Tags = <<tagAB, tagB>>
        /\ call[v].hash = call[w].hash

\* C13: hashEnrichment leaves the record it is given as it was, the order of
\* its tags included: after the call the record of the batch is the record
\* the caller supplied.
C13_HashLeavesRecord ==
    \A w \in Calls : Hashed(w) => call[w].es[1] = Supplied(w)

\* C14: whatever the interleaving of the calls, the create statement of a
\* call returns a sequence number greater than that of every run row there
\* is and a reference no run row has, the row it adds carries them, and no
\* two run rows share a sequence number or a reference.
C14_SequenceStrictlyIncreasing ==
    [][\A w \in Calls :
          (call[w].pc = "create" /\ call'[w].id # NoId) =>
              /\ \A o \in update_operation :
                    call'[w].id > o.id /\ call'[w].ref # o.ref
              /\ \E o \in update_operation' :
                    /\ o.id = call'[w].id /\ o.ref = call'[w].ref
                    /\ o.updater = call[w].name
              /\ \A a \in update_operation', b \in update_operation' :
                    (a.id = b.id \/ a.ref = b.ref) => a = b]_vars

\* Two calls for one updater that overlap have created their runs.
C14_Witness ==
    \E v \in Calls, w \in Calls :
        /\ call[v].pc \in {"insert", "assoc", "done", "commit"}
        /\ call[w].pc \in {"insert", "assoc", "done", "commit"}
        /\ call[v].name = call[w].name
        /\ call[v].id > call[w].id
        /\ \E a \in update_operation, b \in update_operation :
              a.id = call[v].id /\ b.id = call[w].id /\ a.ref # b.ref

\* The step ends the transaction of slot w; it makes its pending rows
\* visible (a commit); it leaves the visible rows as they are (a rollback).
Released(w) == tx[w].open /\ ~tx'[w].open
MadeVisible(w) ==
    /\ enrichment' = enrichment \cup tx[w].enrichment
    /\ uo_enrich' = uo_enrich \cup tx[w].uo_enrich
Dropped == enrichment' = enrichment /\ uo_enrich' = uo_enrich

\* No call that has returned, and no call that has not begun, holds a
\* transaction.
NoneLeftOpen ==
    /\ \A w \in Calls : Free(w) => tx[w] = NoTx
    /\ get.pc = "idle" => ~get.open

\* The transaction of an UpdateEnrichments call ends with the return of the
\* call: committed when the call returns no error, which it does from the
\* commit that follows the batch's Done only, and rolled back when it returns
\* an error.  That of a GetEnrichment call ends rolled back.
EndsAsReturned ==
    /\ \A w \in Calls :
          Released(w) =>
              /\ call'[w].pc = "returned"
              /\ IF call'[w].err = "nil"
                  THEN call[w].pc = "commit" /\ MadeVisible(w)
                  ELSE Dropped
    /\ \A w \in Calls :
          (call[w].pc # "returned" /\ call'[w].pc = "returned") =>
              ~tx'[w].open
    /\ (get.open /\ ~get'.open) => (get'.pc = "idle" /\ Dropped)

\* C15: an UpdateEnrichments or GetEnrichment call that has opened a
\* transaction releases it: no call returns with it open, it is committed
\* only by the successful return of UpdateEnrichments after the batch was
\* finished, rolled back on every other return and always in GetEnrichment,
\* and every transaction opened is released in the end.
C15_TransactionReleased ==
    /\ []NoneLeftOpen
    /\ [][EndsAsReturned]_vars
    /\ \A w \in OneCall : tx[w].open ~> ~tx[w].open
    /\ get.open ~> ~get.open

\* A call has returned an error after it queued rows, another has committed
\* rows, and a GetEnrichment has returned records; no transaction is open.
C15_Witness ==
    /\ \E w \in OneCall :
          /\ call[w].pc = "returned" /\ call[w].err = "done"
          /\ ~tx[w].open
    /\ \E id \in RunIds : Committed(id) /\ Associated(id) # {}
    /\ get.pc = "idle" /\ get.results # {} /\ ~get.open

\* C16: no two association rows tie the same record to the same run, in the
\* visible table and in what a transaction sees; a call that reaches the
\* association of a content its run already holds goes on without an error
\* and adds no row.
C16_OneAssociationPerPair ==
    [][/\ \A w \in Calls :
            \A a \in VisibleAssoc(w)', b \in VisibleAssoc(w)' :
                (a.enrich = b.enrich /\ a.uo = b.uo /\ a.enrich # NULL)
                    => a = b
       /\ \A w \in Calls :
            ( /\ call[w].pc = "assoc" /\ call'[w].pc # "assoc"
              /\ \E e \in SelectEnrichId(w, call[w].hashKind, call[w].hash,
                                          call[w].name) :
                    \E a \in VisibleAssoc(w) :
                        a.enrich = e /\ a.uo = call[w].id
              /\ ~ReturnErr(w) ) =>
                /\ call'[w].pc \in {"insert", "done"}
                /\ VisibleAssoc(w)' = VisibleAssoc(w)]_vars

\* A committed run whose batch held the same content twice has one
\* association.
C16_Witness ==
    \E id \in RunIds :
        /\ Committed(id)
        /\ runs[id].es = <<recC, recC>>
        /\ Cardinality({ a \in uo_enrich : a.uo = id }) = 1
        /\ \A a \in uo_enrich : a.uo = id => a.enrich # NULL

\* C17: no step takes away or changes a visible run row, record or
\* association, so the three tables only grow, and a step of GetEnrichment
\* leaves the three tables as they are.
C17_AppendOnly ==
    [][/\ update_operation \subseteq update_operation'
       /\ enrichment \subseteq enrichment'
       /\ uo_enrich \subseteq uo_enrich'
       /\ get' # get =>
             /\ update_operation' = update_operation
             /\ enrichment' = enrichment
             /\ uo_enrich' = uo_enrich]_vars

\* Two committed runs of an updater are associated with the same record,
\* stored by the first of them, and a GetEnrichment has returned records.
C17_Witness ==
    \E lo \in RunIds, hi \in RunIds :
        /\ lo < hi /\ Committed(lo) /\ Committed(hi)
        /\ runs[lo].name = runs[hi].name
        /\ \E e \in Associated(lo) \cap Associated(hi) : e.id[1] = lo
        /\ get.pc = "idle" /\ get.results # {}

\* What GetEnrichment(U, t) returns when the calls for U are the only calls
\* there have been: the record stored under a digest is the first content
\* with that digest in the batches of the committed runs of U, which commit
\* in the order of their sequence numbers, and the latest run of U is
\* associated with the records stored under the digests of its batch.
Digest(r) == hashEnrichment(r).d
Occurrences(U, d) ==
    UNION { { <<id, k>> : k \in { j \in 1..Len(runs[id].es) :
                                    Digest(runs[id].es[j]) = d } } :
              id \in CommittedOf(U) }
FirstStored(U, d) ==
    LET p == CHOOSE x \in Occurrences(U, d) :
                 \A y \in Occurrences(U, d) :
                     x[1] < y[1] \/ (x[1] = y[1] /\ x[2] <= y[2])
    IN  hashEnrichment(runs[p[1]].es[p[2]]).r
Alone(U, t) ==
    IF RunsOf(U) = {} \/ ~Committed(Greatest(RunsOf(U))) THEN {}
    ELSE { x \in { FirstStored(U, Digest(r)) :
                     r \in Elems(runs[Greatest(RunsOf(U))].es) } :
             Elems(x.Tags) \cap Elems(t) # {} }

\* C18: the calls for another updater change nothing for U.  The insert and
\* the lookup of a call for U find the record of U, as they do when U is the
\* only updater; every record associated with the latest run of U is owned
\* by U; and when no call is under way GetEnrichment(U, t) returns what it
\* returns when the calls for U are the only calls there have been.
C18_UpdatersDoNotInterfere ==
    /\ \A w \in Calls :
          call[w].pc = "assoc" =>
              SelectEnrichId(w, call[w].hashKind, call[w].hash,
                             call[w].name) # {}
    /\ \A U \in Names :
          \A a \in uo_enrich, e \in enrichment :
              (a.uo = Latest(U) /\ a.enrich = e.id) => e.updater = U
    /\ (\A w \in Calls : Free(w)) =>
          \A U \in Names, t \in Filters : query(U, t) = Alone(U, t)

\* C19: two records that differ in their tag sets or in their payloads get
\* different digests: the bytes written to the digest, which stands for
\* them here, are different.
C19_StreamInjective ==
    \A v \in Calls, w \in Calls :
        ( /\ Hashed(v) /\ Hashed(w)
          /\ Content(Supplied(v)) # Content(Supplied(w)) ) =>
            call[v].hash # call[w].hash

\* The run rows of kind enrichment of an updater.
EnrichmentRunsOf(U) ==
    { o.id : o \in { x \in update_operation :
                        x.updater = U /\ x.kind = "enrichment" } }

\* C20: GetEnrichment(U, t) returns the tag-matching records of the run of U
\* with the greatest sequence number among the runs of kind enrichment,
\* whatever run rows of other kinds there are for U.
C20_LatestAmongEnrichmentRuns ==
    \A U \in Names, t \in Filters :
        query(U, t) =
            IF EnrichmentRunsOf(U) = {} THEN {}
            ELSE { [Tags |-> e.tags, Enrichment |-> e.data] :
                     e \in { x \in Associated(Greatest(EnrichmentRunsOf(U))) :
                               Elems(x.tags) \cap Elems(t) # {} } }

====
